---------------------------- MODULE Spec2Model ----------------------------
(***************************************************************************)
(* Model of kursovaya.py: the drone data model (DroneModelSingleton), the  *)
(* obstacle sensor (ObstacleSensor), the view (DroneView), the controller  *)
(* (DroneController), the flight strategies and StatefulDrone, and the     *)
(* module wiring.                                                          *)
(*                                                                         *)
(* Objects of class DroneModelSingleton live in `heap`, a sequence of      *)
(* attribute records; a reference to one is its index in `heap`, and the   *)
(* Python None is the reference 0.  A Python tuple (a, b) is the TLA+      *)
(* tuple <<a, b>>, so position[0] is position[1] here.                     *)
(***************************************************************************)
EXTENDS Integers, Sequences, FiniteSets

VARIABLES
    instance,          \* DroneModelSingleton._instance (0 is None)
    heap,              \* the DroneModelSingleton objects allocated so far
    drone_model,       \* module variable drone_model (line 239)
    controller_model,  \* drone_controller.model
    sensors,           \* drone_controller.sensors
    stateful_model,    \* stateful_drone.model
    strategy,          \* stateful_drone.strategy
    op,                \* the operation that ran last
    arg,               \* its arguments, as a tuple
    result,            \* what it returned
    pre,               \* heap before it ran
    log,               \* the sensor.update calls of the last notify_sensors
    pc,                \* per request thread: the statement it is to run next
    frame,             \* per request thread: the locals of its handler
    raced              \* per request thread: another thread has written
                       \* position since its ObstacleSensor.update read it

vars == <<instance, heap, drone_model, controller_model, sensors,
          stateful_model, strategy, op, arg, result, pre, log,
          pc, frame, raced>>

(***************************************************************************)
(* Bounds of the model.                                                    *)
(***************************************************************************)
\* notify_sensors runs only while the dodges keep position[0] within MaxCoord
MaxCoord == 20
\* attach_sensor runs only while fewer than MaxSensors sensors are attached
MaxSensors == 2
\* update_battery_level runs only while the total consumption stays within it
MaxConsumed == 81

\* the ObstacleSensor objects a caller may attach (1 is obstacle_sensor)
SensorIds == {1, 2}
PositionInputs == {<<0, 0>>, <<-3, 4>>}
AltitudeInputs == {-2, 0, 7}
SpeedInputs == {-1, 0, 6}
DistanceInputs == {3, 9, 10, 50}
ConsumptionInputs == {40, 41}
Strategies == {"Takeoff", "Land", "Patrol"}
\* the threads of the server that handle requests at the same time
Threads == {1, 2}

None == 0
NoStrategy == "None"
NoResult == "None"

(***************************************************************************)
(* DroneModelSingleton                                                     *)
(***************************************************************************)
\* the attributes __new__ gives the first instance
NewInstance ==
    [altitude |-> 0, speed |-> 0, position |-> <<0, 0>>, battery_level |-> 100]

\* DroneModelSingleton(): the reference returned, the class attribute and the heap
DroneModelSingleton_new_reset(inst, h) ==
    IF inst = None
    THEN [ref |-> Len(h) + 1, instance |-> Len(h) + 1, heap |-> Append(h, NewInstance)]
    ELSE [ref |-> inst, instance |-> inst, heap |-> [h EXCEPT ![inst] = NewInstance]]

DroneModelSingleton_new(inst, h) ==
    IF inst = None
    THEN [ref |-> Len(h) + 1, instance |-> Len(h) + 1, heap |-> Append(h, NewInstance)]
    ELSE [ref |-> inst, instance |-> inst, heap |-> h]

update_position(h, m, new_position) == [h EXCEPT ![m].position = new_position]

update_altitude_and_speed(h, m, new_altitude) ==
    [h EXCEPT ![m].altitude = new_altitude, ![m].speed = new_altitude]

update_altitude(h, m, new_altitude) == [h EXCEPT ![m].altitude = new_altitude]

update_speed(h, m, new_speed) == [h EXCEPT ![m].speed = new_speed]

update_battery_level(h, m, consumption) ==
    [h EXCEPT ![m].battery_level = h[m].battery_level - consumption]

(***************************************************************************)
(* DroneView                                                               *)
(***************************************************************************)
display_status(model) ==
    [altitude |-> model.altitude, speed |-> model.speed,
     position |-> model.position, battery_level |-> model.battery_level]

alert(message) == [alert |-> message]

(***************************************************************************)
(* DroneController: each method gives the heap it leaves and its result    *)
(***************************************************************************)
change_position(h, m, new_position) ==
    LET h2 == update_position(h, m, new_position)
    IN  [heap |-> h2, result |-> display_status(h2[m])]

change_altitude(h, m, new_altitude) ==
    LET h2 == update_altitude(h, m, new_altitude)
    IN  [heap |-> h2, result |-> display_status(h2[m])]

change_speed(h, m, new_speed) ==
    LET h2 == update_speed(h, m, new_speed)
    IN  [heap |-> h2, result |-> display_status(h2[m])]

monitor_battery_inclusive(h, m) ==
    IF h[m].battery_level <= 20
    THEN alert("Low battery! Returning to base.")
    ELSE [battery_level |-> h[m].battery_level]

monitor_battery(h, m) ==
    IF h[m].battery_level < 20
    THEN alert("Low battery! Returning to base.")
    ELSE [battery_level |-> h[m].battery_level]

return_to_base_keeps_speed(h, m) ==
    LET h1 == update_position(h, m, <<0, 0>>)
        h2 == update_altitude(h1, m, 0)
    IN  [heap |-> h2, result |-> alert("Drone has returned to base.")]

return_to_base(h, m) ==
    LET h1 == update_position(h, m, <<0, 0>>)
        h2 == update_altitude(h1, m, 0)
        h3 == update_speed(h2, m, 0)
    IN  [heap |-> h3, result |-> alert("Drone has returned to base.")]

auto_return_to_base(h, m) == return_to_base(h, m)

(***************************************************************************)
(* ObstacleSensor.update, called with the controller's model reference     *)
(***************************************************************************)
ObstacleSensor_update_diagonal(h, m, data) ==
    IF data.distance < 10
    THEN change_position(h, m, <<h[m].position[1] + 10, h[m].position[2] + 10>>).heap
    ELSE IF data.distance < 5
         THEN change_speed(h, m, 0).heap
         ELSE h

ObstacleSensor_update_inclusive(h, m, data) ==
    IF data.distance <= 10
    THEN change_position(h, m, <<h[m].position[1] + 10, h[m].position[2]>>).heap
    ELSE IF data.distance < 5
         THEN change_speed(h, m, 0).heap
         ELSE h

ObstacleSensor_update_stop_first(h, m, data) ==
    IF data.distance < 5
    THEN change_speed(h, m, 0).heap
    ELSE IF data.distance < 10
         THEN change_position(h, m, <<h[m].position[1] + 10, h[m].position[2]>>).heap
         ELSE h

ObstacleSensor_update(h, m, data) ==
    IF data.distance < 10
    THEN change_position(h, m, <<h[m].position[1] + 10, h[m].position[2]>>).heap
    ELSE IF data.distance < 5
         THEN change_speed(h, m, 0).heap
         ELSE h

(***************************************************************************)
(* DroneController.notify_sensors: the loop over self.sensors, from index  *)
(* i on; lg records each sensor.update call with the model's attributes    *)
(* when it started and when it returned                                    *)
(***************************************************************************)
RECURSIVE notify_from(_, _, _, _, _, _)
notify_from(h, m, ss, data, i, lg) ==
    IF i > Len(ss)
    THEN [heap |-> h, log |-> lg]
    ELSE LET h2 == ObstacleSensor_update(h, m, data)
         IN  notify_from(h2, m, ss, data, i + 1,
                 Append(lg, [sensor |-> ss[i], before |-> h[m], after |-> h2[m]]))

RECURSIVE notify_from_last(_, _, _, _, _, _)
notify_from_last(h, m, ss, data, i, lg) ==
    IF i < 1
    THEN [heap |-> h, log |-> lg]
    ELSE LET h2 == ObstacleSensor_update(h, m, data)
         IN  notify_from_last(h2, m, ss, data, i - 1,
                 Append(lg, [sensor |-> ss[i], before |-> h[m], after |-> h2[m]]))

notify_sensors_reversed(h, m, ss, data) == notify_from_last(h, m, ss, data, Len(ss), <<>>)

\* every sensor is given the model as it was when the call began
notify_sensors_snapshot(h, m, ss, data) ==
    [heap |-> IF ss = <<>> THEN h ELSE ObstacleSensor_update(h, m, data),
     log |-> [i \in 1..Len(ss) |->
                 [sensor |-> ss[i], before |-> h[m],
                  after |-> ObstacleSensor_update(h, m, data)[m]]]]

notify_sensors(h, m, ss, data) == notify_from(h, m, ss, data, 1, <<>>)

(***************************************************************************)
(* Flight strategies: execute(drone) on the heap, drone.model being m      *)
(***************************************************************************)
TakeoffStrategy_execute_climb(h, m) == update_altitude(h, m, h[m].altitude + 10)

TakeoffStrategy_execute_drains(h, m) ==
    update_battery_level(update_altitude(h, m, 10), m, 40)

TakeoffStrategy_execute(h, m) == update_altitude(h, m, 10)

LandingStrategy_execute(h, m) == update_altitude(h, m, 0)

PatrolStrategy_execute(h, m) == h

execute(s, h, m) ==
    CASE s = "Takeoff" -> TakeoffStrategy_execute(h, m)
      [] s = "Land"    -> LandingStrategy_execute(h, m)
      [] s = "Patrol"  -> PatrolStrategy_execute(h, m)

(***************************************************************************)
(* StatefulDrone                                                           *)
(***************************************************************************)
perform_action_skips(h, m, s) == [heap |-> h, result |-> NoResult]

perform_action(h, m, s) ==
    [heap |-> IF s # NoStrategy THEN execute(s, h, m) ELSE h, result |-> NoResult]

\* what the method's name says: the drone goes back to base
StatefulDrone_auto_return_to_base_returns(h, m, s) ==
    IF s = NoStrategy
    THEN [heap |-> h, result |-> [error |-> "AttributeError"]]
    ELSE [heap |-> return_to_base(h, m).heap, result |-> NoResult]

\* self.strategy.execute(self): None has no attribute execute
StatefulDrone_auto_return_to_base(h, m, s) ==
    IF s = NoStrategy
    THEN [heap |-> h, result |-> [error |-> "AttributeError"]]
    ELSE [heap |-> execute(s, h, m), result |-> NoResult]

(***************************************************************************)
(* Module wiring, lines 239-247                                            *)
(***************************************************************************)
\* the locals of a thread that runs no handler
NoFrame == [distance |-> 0, i |-> 0, x |-> 0, y |-> 0]

Init ==
    LET m == DroneModelSingleton_new(None, <<>>)
    IN  /\ instance = m.instance
        /\ heap = m.heap
        /\ drone_model = m.ref
        /\ controller_model = m.ref
        /\ sensors = <<1>>
        /\ stateful_model = m.ref
        /\ strategy = NoStrategy
        /\ op = "init"
        /\ arg = <<>>
        /\ result = NoResult
        /\ pre = m.heap
        /\ log = <<>>
        /\ pc = [t \in Threads |-> "idle"]
        /\ frame = [t \in Threads |-> NoFrame]
        /\ raced = [t \in Threads |-> FALSE]

(***************************************************************************)
(* Calls                                                                   *)
(***************************************************************************)
\* what every call records
Called(name, a, r) ==
    /\ op' = name
    /\ arg' = a
    /\ result' = r
    /\ pre' = heap
    /\ UNCHANGED <<pc, frame, raced>>

\* drone_model = DroneModelSingleton(), again
Call_DroneModelSingleton ==
    LET m == DroneModelSingleton_new(instance, heap)
    IN  /\ instance' = m.instance
        /\ heap' = m.heap
        /\ drone_model' = m.ref
        /\ Called("DroneModelSingleton", <<>>, NoResult)
        /\ log' = <<>>
        /\ UNCHANGED <<controller_model, sensors, stateful_model, strategy>>

\* stateful_drone = StatefulDrone(DroneModelSingleton(), drone_view), again
Call_StatefulDrone ==
    LET m == DroneModelSingleton_new(instance, heap)
    IN  /\ instance' = m.instance
        /\ heap' = m.heap
        /\ stateful_model' = m.ref
        /\ strategy' = NoStrategy
        /\ Called("StatefulDrone", <<>>, NoResult)
        /\ log' = <<>>
        /\ UNCHANGED <<drone_model, controller_model, sensors>>

Call_update_battery_level ==
    \E consumption \in ConsumptionInputs :
        /\ 100 - heap[drone_model].battery_level + consumption <= MaxConsumed
        /\ heap' = update_battery_level(heap, drone_model, consumption)
        /\ Called("update_battery_level", <<consumption>>, NoResult)
        /\ log' = <<>>
        /\ UNCHANGED <<instance, drone_model, controller_model, sensors,
                       stateful_model, strategy>>

Call_attach_sensor ==
    \E sensor \in SensorIds :
        /\ Len(sensors) < MaxSensors
        /\ sensors' = Append(sensors, sensor)
        /\ Called("attach_sensor", <<sensor>>, NoResult)
        /\ log' = <<>>
        /\ UNCHANGED <<instance, heap, drone_model, controller_model,
                       stateful_model, strategy>>

Call_notify_sensors ==
    \E distance \in DistanceInputs :
        LET n == notify_sensors(heap, controller_model, sensors, [distance |-> distance])
        IN  /\ n.heap[controller_model].position[1] <= MaxCoord
            /\ heap' = n.heap
            /\ log' = n.log
            /\ Called("notify_sensors", <<distance>>, NoResult)
            /\ UNCHANGED <<instance, drone_model, controller_model, sensors,
                           stateful_model, strategy>>

\* a controller method that gives a heap and a result
ControllerCall(name, a, r) ==
    /\ heap' = r.heap
    /\ Called(name, a, r.result)
    /\ log' = <<>>
    /\ UNCHANGED <<instance, drone_model, controller_model, sensors,
                   stateful_model, strategy>>

Call_change_position ==
    \E new_position \in PositionInputs :
        ControllerCall("change_position", new_position,
                       change_position(heap, controller_model, new_position))

Call_change_altitude ==
    \E new_altitude \in AltitudeInputs :
        ControllerCall("change_altitude", <<new_altitude>>,
                       change_altitude(heap, controller_model, new_altitude))

Call_change_speed ==
    \E new_speed \in SpeedInputs :
        ControllerCall("change_speed", <<new_speed>>,
                       change_speed(heap, controller_model, new_speed))

Call_monitor_battery ==
    ControllerCall("monitor_battery", <<>>,
                   [heap |-> heap, result |-> monitor_battery(heap, controller_model)])

Call_return_to_base ==
    ControllerCall("return_to_base", <<>>, return_to_base(heap, controller_model))

Call_auto_return_to_base ==
    ControllerCall("auto_return_to_base", <<>>,
                   auto_return_to_base(heap, controller_model))

Call_set_strategy ==
    \E s \in Strategies :
        /\ strategy' = s
        /\ Called("set_strategy", <<s>>, NoResult)
        /\ log' = <<>>
        /\ UNCHANGED <<instance, heap, drone_model, controller_model, sensors,
                       stateful_model>>

Call_perform_action ==
    LET r == perform_action(heap, stateful_model, strategy)
    IN  /\ heap' = r.heap
        /\ Called("perform_action", <<>>, r.result)
        /\ log' = <<>>
        /\ UNCHANGED <<instance, drone_model, controller_model, sensors,
                       stateful_model, strategy>>

Call_StatefulDrone_auto_return_to_base ==
    LET r == StatefulDrone_auto_return_to_base(heap, stateful_model, strategy)
    IN  /\ heap' = r.heap
        /\ Called("StatefulDrone.auto_return_to_base", <<>>, r.result)
        /\ log' = <<>>
        /\ UNCHANGED <<instance, drone_model, controller_model, sensors,
                       stateful_model, strategy>>

\* the routes /takeoff, /patrol and /land: set_strategy, then perform_action
Route(name, s, message) ==
    LET r == perform_action(heap, stateful_model, s)
    IN  /\ strategy' = s
        /\ heap' = r.heap
        /\ Called(name, <<>>, [message |-> message])
        /\ log' = <<>>
        /\ UNCHANGED <<instance, drone_model, controller_model, sensors,
                       stateful_model>>

Route_takeoff == Route("takeoff", "Takeoff", "Drone is taking off")

Route_patrol == Route("patrol", "Patrol", "Drone is patrolling")

Route_land == Route("land", "Land", "Drone is landing")

\* request.get_json() gives a dict, here <<>> without the key and <<v>> with it
PositionPayloads == {<<>>} \cup {<<p>> : p \in PositionInputs}

AltitudePayloads == {<<>>} \cup {<<a>> : a \in AltitudeInputs}

SpeedPayloads == {<<>>} \cup {<<v>> : v \in SpeedInputs}

\* data.get(key, default)
get(data, default) == IF data = <<>> THEN default ELSE data[1]

\* the route /
Route_get_status ==
    ControllerCall("get_status", <<>>,
                   [heap |-> heap, result |-> display_status(heap[drone_model])])

\* the route /position
Route_update_position ==
    \E data \in PositionPayloads :
        ControllerCall("update_position", data,
                       change_position(heap, controller_model, get(data, <<0, 0>>)))

\* the route /altitude
Route_update_altitude ==
    \E data \in AltitudePayloads :
        ControllerCall("update_altitude", data,
                       change_altitude(heap, controller_model, get(data, 0)))

\* the route /speed
Route_update_speed ==
    \E data \in SpeedPayloads :
        ControllerCall("update_speed", data,
                       change_speed(heap, controller_model, get(data, 0)))

\* the route /battery
Route_check_battery ==
    ControllerCall("check_battery", <<>>,
                   [heap |-> heap, result |-> monitor_battery(heap, controller_model)])

\* the route /return_to_base
Route_return_to_base ==
    ControllerCall("return_to_base", <<>>, return_to_base(heap, controller_model))

Next ==
    \/ Call_DroneModelSingleton
    \/ Call_StatefulDrone
    \/ Call_update_battery_level
    \/ Call_attach_sensor
    \/ Call_notify_sensors
    \/ Call_change_position
    \/ Call_change_altitude
    \/ Call_change_speed
    \/ Call_monitor_battery
    \/ Call_return_to_base
    \/ Call_auto_return_to_base
    \/ Call_set_strategy
    \/ Call_perform_action
    \/ Call_StatefulDrone_auto_return_to_base
    \/ Route_takeoff
    \/ Route_patrol
    \/ Route_land

Spec == Init /\ [][Next]_vars

(***************************************************************************)
(* Requests handled by several threads at once (the server app.run starts  *)
(* handles each request in a thread of its own, and nothing in the module  *)
(* locks the model).  A step is one statement of a handler: one attribute  *)
(* read or one attribute assignment.                                       *)
(***************************************************************************)
\* what a thread's step leaves alone besides heap, pc, frame and raced
ThreadStep ==
    UNCHANGED <<instance, drone_model, controller_model, sensors,
                stateful_model, strategy, op, arg, result, pre, log>>

\* thread t assigns position: every other thread whose ObstacleSensor.update
\* has read position and not yet written it has been overtaken
PositionWrittenBy(t) ==
    raced' = [u \in Threads |->
                 IF u # t /\ pc[u] \in {"update_read_y", "update_write"}
                 THEN TRUE ELSE raced[u]]

\* /position: change_position, one assignment
T_change_position(t) ==
    \E new_position \in PositionInputs :
        /\ pc[t] = "idle"
        /\ heap' = change_position(heap, controller_model, new_position).heap
        /\ PositionWrittenBy(t)
        /\ UNCHANGED <<pc, frame>>
        /\ ThreadStep

\* /altitude: change_altitude, one assignment
T_change_altitude(t) ==
    \E new_altitude \in AltitudeInputs :
        /\ pc[t] = "idle"
        /\ heap' = change_altitude(heap, controller_model, new_altitude).heap
        /\ UNCHANGED <<pc, frame, raced>>
        /\ ThreadStep

\* /speed: change_speed, one assignment
T_change_speed(t) ==
    \E new_speed \in SpeedInputs :
        /\ pc[t] = "idle"
        /\ heap' = change_speed(heap, controller_model, new_speed).heap
        /\ UNCHANGED <<pc, frame, raced>>
        /\ ThreadStep

\* return_to_base, line 154
T_return_to_base_position(t) ==
    /\ pc[t] = "idle"
    /\ heap' = update_position(heap, controller_model, <<0, 0>>)
    /\ PositionWrittenBy(t)
    /\ pc' = [pc EXCEPT ![t] = "rtb_altitude"]
    /\ UNCHANGED frame
    /\ ThreadStep

\* return_to_base, line 155
T_return_to_base_altitude(t) ==
    /\ pc[t] = "rtb_altitude"
    /\ heap' = update_altitude(heap, controller_model, 0)
    /\ pc' = [pc EXCEPT ![t] = "rtb_speed"]
    /\ UNCHANGED <<frame, raced>>
    /\ ThreadStep

\* return_to_base, line 156
T_return_to_base_speed(t) ==
    /\ pc[t] = "rtb_speed"
    /\ heap' = update_speed(heap, controller_model, 0)
    /\ pc' = [pc EXCEPT ![t] = "rtb_return"]
    /\ UNCHANGED <<frame, raced>>
    /\ ThreadStep

\* return_to_base, line 157
T_return_to_base_return(t) ==
    /\ pc[t] = "rtb_return"
    /\ pc' = [pc EXCEPT ![t] = "idle"]
    /\ UNCHANGED <<heap, frame, raced>>
    /\ ThreadStep

\* notify_sensors(data) is called
T_notify_sensors(t) ==
    \E distance \in DistanceInputs :
        /\ pc[t] = "idle"
        /\ pc' = [pc EXCEPT ![t] = "notify_loop"]
        /\ frame' = [frame EXCEPT ![t] = [NoFrame EXCEPT !.distance = distance, !.i = 1]]
        /\ UNCHANGED <<heap, raced>>
        /\ ThreadStep

\* the for statement of line 118, and the tests of lines 64 and 68 in the
\* update it calls
T_notify_loop(t) ==
    /\ pc[t] = "notify_loop"
    /\ IF frame[t].i > Len(sensors)
       THEN /\ pc' = [pc EXCEPT ![t] = "idle"]
            /\ frame' = [frame EXCEPT ![t] = NoFrame]
            /\ UNCHANGED heap
       ELSE IF frame[t].distance < 10
            THEN /\ pc' = [pc EXCEPT ![t] = "update_read_x"]
                 /\ UNCHANGED <<heap, frame>>
            ELSE /\ heap' = IF frame[t].distance < 5
                            THEN change_speed(heap, controller_model, 0).heap
                            ELSE heap
                 /\ frame' = [frame EXCEPT ![t].i = frame[t].i + 1]
                 /\ UNCHANGED pc
    /\ UNCHANGED raced
    /\ ThreadStep

\* line 66, self.controller.model.position[0] + 10
T_update_read_x(t) ==
    /\ pc[t] = "update_read_x"
    /\ heap[controller_model].position[1] + 10 <= MaxCoord
    /\ frame' = [frame EXCEPT ![t].x = heap[controller_model].position[1] + 10]
    /\ raced' = [raced EXCEPT ![t] = FALSE]
    /\ pc' = [pc EXCEPT ![t] = "update_read_y"]
    /\ UNCHANGED heap
    /\ ThreadStep

\* line 66, self.controller.model.position[1]
T_update_read_y(t) ==
    /\ pc[t] = "update_read_y"
    /\ frame' = [frame EXCEPT ![t].y = heap[controller_model].position[2]]
    /\ pc' = [pc EXCEPT ![t] = "update_write"]
    /\ UNCHANGED <<heap, raced>>
    /\ ThreadStep

\* line 67, self.controller.change_position(new_position)
T_update_write(t) ==
    /\ pc[t] = "update_write"
    /\ heap' = change_position(heap, controller_model, <<frame[t].x, frame[t].y>>).heap
    /\ PositionWrittenBy(t)
    /\ frame' = [frame EXCEPT ![t] = [NoFrame EXCEPT !.distance = frame[t].distance,
                                                      !.i = frame[t].i + 1]]
    /\ pc' = [pc EXCEPT ![t] = "notify_loop"]
    /\ ThreadStep

NextThreads ==
    \E t \in Threads :
        \/ T_change_position(t)
        \/ T_change_altitude(t)
        \/ T_change_speed(t)
        \/ T_return_to_base_position(t)
        \/ T_return_to_base_altitude(t)
        \/ T_return_to_base_speed(t)
        \/ T_return_to_base_return(t)
        \/ T_notify_sensors(t)
        \/ T_notify_loop(t)
        \/ T_update_read_x(t)
        \/ T_update_read_y(t)
        \/ T_update_write(t)

SpecThreads == Init /\ [][NextThreads]_vars

\* What a client of the service can trigger: the Flask routes, and an
\* obstacle reading given to notify_sensors
NextExternal ==
    \/ Route_get_status
    \/ Route_update_position
    \/ Route_update_altitude
    \/ Route_update_speed
    \/ Route_check_battery
    \/ Route_return_to_base
    \/ Route_takeoff
    \/ Route_patrol
    \/ Route_land
    \/ Call_notify_sensors

SpecExternal == Init /\ [][NextExternal]_vars

(***************************************************************************)
(* Properties.  `now` and `was` are the controller's model after and       *)
(* before the last operation; `seen` and `seen_before` are the same model  *)
(* as stateful_drone reaches it.                                           *)
(***************************************************************************)
now == heap[controller_model]

was == pre[controller_model]

seen == heap[stateful_model]

seen_before == pre[stateful_model]

\* C1: change_position, change_altitude and change_speed each set exactly
\* their own attribute to the value given, leave the other three attributes
\* (battery_level among them) as they were, and return the status of the
\* state after the mutation.
C1_ChangeSetsOnlyItsAttribute ==
    /\ op = "change_position" =>
          /\ now.position = arg
          /\ now.altitude = was.altitude
          /\ now.speed = was.speed
          /\ now.battery_level = was.battery_level
          /\ result = display_status(now)
    /\ op = "change_altitude" =>
          /\ now.altitude = arg[1]
          /\ now.position = was.position
          /\ now.speed = was.speed
          /\ now.battery_level = was.battery_level
          /\ result = display_status(now)
    /\ op = "change_speed" =>
          /\ now.speed = arg[1]
          /\ now.position = was.position
          /\ now.altitude = was.altitude
          /\ now.battery_level = was.battery_level
          /\ result = display_status(now)

\* change_altitude has replaced the altitude 10 by 7 in a state where speed,
\* position and battery level are all away from their initial values
C1_Witness ==
    /\ op = "change_altitude"
    /\ arg = <<7>>
    /\ was.altitude = 10
    /\ now = [altitude |-> 7, speed |-> 6, position |-> <<7, 4>>, battery_level |-> 19]

\* C2: after return_to_base, whatever the state before, position is (0,0),
\* altitude is 0 and speed is 0, and the result is the alert "Drone has
\* returned to base.".
C2_ReturnToBaseResets ==
    op = "return_to_base" =>
        /\ now.position = <<0, 0>>
        /\ now.altitude = 0
        /\ now.speed = 0
        /\ result = [alert |-> "Drone has returned to base."]

\* return_to_base has run from a state away from base in all three attributes
C2_Witness ==
    /\ op = "return_to_base"
    /\ was.position = <<17, 4>>
    /\ was.altitude = 10
    /\ was.speed = 6
    /\ now.position = <<0, 0>>

\* C3: with one ObstacleSensor attached, notify_sensors with a distance below
\* 10 (below 5 included) moves position from (x, y) to (x+10, y) and leaves
\* altitude, speed and battery_level unchanged.
C3_DodgeMovesXByTen ==
    (op = "notify_sensors" /\ arg[1] < 10 /\ Len(sensors) = 1) =>
        /\ now.position = <<was.position[1] + 10, was.position[2]>>
        /\ now.altitude = was.altitude
        /\ now.speed = was.speed
        /\ now.battery_level = was.battery_level

\* the reading 3 has moved a flying drone from (0,0) to (10,0)
C3_Witness ==
    /\ op = "notify_sensors"
    /\ arg = <<3>>
    /\ Len(sensors) = 1
    /\ was.position = <<0, 0>>
    /\ now.position = <<10, 0>>
    /\ now.speed = 6
    /\ now.altitude = 7

\* C4: notify_sensors with a distance of 10 or more leaves all four
\* attributes unchanged, however many ObstacleSensors are attached.
C4_FarReadingChangesNothing ==
    (op = "notify_sensors" /\ arg[1] >= 10) => heap = pre

\* the reading 10 has reached two sensors of a moving drone away from base
C4_Witness ==
    /\ op = "notify_sensors"
    /\ arg = <<10>>
    /\ Len(sensors) = 2
    /\ Len(log) = 2
    /\ now.position = <<-3, 4>>
    /\ now.speed = 6

\* C5: monitor_battery returns the alert "Low battery! Returning to base."
\* exactly when battery_level < 20, returns {battery_level: level} otherwise
\* (so at 20), and changes no attribute: it does not return to base.
C5_MonitorBatteryThreshold ==
    op = "monitor_battery" =>
        /\ (result = [alert |-> "Low battery! Returning to base."])
               <=> (now.battery_level < 20)
        /\ now.battery_level >= 20 => result = [battery_level |-> now.battery_level]
        /\ heap = pre

\* monitor_battery has alerted at level 19 and left the drone away from base
C5_Witness ==
    /\ op = "monitor_battery"
    /\ now.battery_level = 19
    /\ result = [alert |-> "Low battery! Returning to base."]
    /\ now.position = <<7, 4>>
    /\ now.altitude = 10

\* C6: one notify_sensors call invokes update once per attached sensor, in
\* the order of attachment, and each update starts from the state the
\* previous one left: the first from the state before the call, and the
\* state after the call is the one the last update left.
C6_EverySensorOnceInOrder ==
    op = "notify_sensors" =>
        /\ Len(log) = Len(sensors)
        /\ \A i \in 1..Len(log) : log[i].sensor = sensors[i]
        /\ \A i \in 1..Len(log) :
              /\ log[i].before = (IF i = 1 THEN was ELSE log[i - 1].after)
              /\ i = Len(log) => log[i].after = now

\* two different sensors were attached and both have dodged, one after the other
C6_Witness ==
    /\ op = "notify_sensors"
    /\ sensors = <<1, 2>>
    /\ arg = <<9>>
    /\ Len(log) = 2
    /\ log[1].before.position = <<0, 0>>
    /\ log[2].before.position = <<10, 0>>
    /\ now.position = <<20, 0>>

\* the calls that run the selected strategy through perform_action
Performed(s) == op \in {"perform_action", "takeoff", "patrol", "land"} /\ strategy = s

\* C7: with Patrol selected, each perform_action sets speed to 5 and moves
\* position from (x, y) to (x+5, y+5), so two calls advance it by (10, 10).
C7_PatrolAdvances ==
    Performed("Patrol") =>
        /\ seen.speed = 5
        /\ seen.position = <<seen_before.position[1] + 5, seen_before.position[2] + 5>>

\* C8: with Land selected, perform_action sets altitude to 0 and speed to 0
\* and leaves position and battery_level unchanged.
C8_LandStopsDrone ==
    Performed("Land") =>
        /\ seen.altitude = 0
        /\ seen.speed = 0
        /\ seen.position = seen_before.position
        /\ seen.battery_level = seen_before.battery_level

\* C9: with Takeoff selected, perform_action sets altitude to 10 and leaves
\* speed, position and battery_level unchanged; performing it again leaves
\* the state as it is.
C9_TakeoffSetsAltitudeTen ==
    Performed("Takeoff") =>
        /\ seen.altitude = 10
        /\ seen.speed = seen_before.speed
        /\ seen.position = seen_before.position
        /\ seen.battery_level = seen_before.battery_level
        /\ perform_action(heap, stateful_model, strategy).heap = heap

\* perform_action with Takeoff has run a second time, on a moving drone away
\* from base whose altitude the first run had set
C9_Witness ==
    /\ op = "perform_action"
    /\ strategy = "Takeoff"
    /\ seen_before.altitude = 10
    /\ seen = [altitude |-> 10, speed |-> 6, position |-> <<7, 4>>, battery_level |-> 59]

\* C10: there is exactly one DroneModelSingleton object; _instance, the
\* module's drone_model (the one the status view shows), the controller's
\* model and stateful_drone's model are all that object, so each sees the
\* others' mutations; and constructing DroneModelSingleton again, alone or
\* for a new StatefulDrone, leaves its attributes as they were.
C10_OneSharedInstance ==
    /\ Len(heap) = 1
    /\ instance = 1
    /\ drone_model = instance
    /\ controller_model = instance
    /\ stateful_model = instance
    /\ display_status(seen) = display_status(now)
    /\ op \in {"DroneModelSingleton", "StatefulDrone"} => heap = pre

\* DroneModelSingleton() has been called again for a new StatefulDrone after
\* the controller and a strategy had changed every attribute it can reach
C10_Witness ==
    /\ op = "StatefulDrone"
    /\ seen = [altitude |-> 10, speed |-> 6, position |-> <<17, 4>>, battery_level |-> 20]

\* C11: in every state a client can reach (set position, altitude and
\* speed with any number, return to base, the maneuvers, obstacle readings)
\* altitude >= 0 and speed >= 0.
C11_AltitudeSpeedNonNegative ==
    /\ now.altitude >= 0
    /\ now.speed >= 0

\* C12: the stop branch of ObstacleSensor.update is never taken: for every
\* reading, below 5 included, no update of a notify_sensors call changes
\* speed, so speed after the call is speed before it, not 0.
C12_ReadingNeverStops ==
    op = "notify_sensors" =>
        /\ now.speed = was.speed
        /\ \A i \in 1..Len(log) : log[i].after.speed = log[i].before.speed

\* the reading 3 has reached two sensors of a drone moving at speed 6, which
\* dodged twice and is still moving at speed 6
C12_Witness ==
    /\ op = "notify_sensors"
    /\ arg = <<3>>
    /\ Len(log) = 2
    /\ was.speed = 6
    /\ now.speed = 6
    /\ now.position[1] = was.position[1] + 20

\* C14: with k registrations in the registry, the same sensor registered
\* several times included, one notify_sensors call with a distance below 10
\* moves position from (x, y) to (x + 10*k, y): the i-th update starts from
\* (x + 10*(i-1), y), the position the updates before it left.
C14_DodgesAccumulate ==
    (op = "notify_sensors" /\ arg[1] < 10) =>
        /\ now.position = <<was.position[1] + 10 * Len(sensors), was.position[2]>>
        /\ Len(log) = Len(sensors)
        /\ \A i \in 1..Len(log) :
              log[i].before.position =
                  <<was.position[1] + 10 * (i - 1), was.position[2]>>

\* the sensor obstacle_sensor is registered twice and one reading has moved
\* the drone from (-3, 4) to (17, 4)
C14_Witness ==
    /\ op = "notify_sensors"
    /\ arg = <<9>>
    /\ sensors = <<1, 1>>
    /\ was.position = <<-3, 4>>
    /\ now.position = <<17, 4>>

\* the calls that select a strategy: set_strategy, directly or in a route
Selects == {"set_strategy", "takeoff", "patrol", "land"}

\* C15: a StatefulDrone starts with no strategy selected; perform_action with
\* none selected leaves the four attributes unchanged and raises nothing;
\* the selection changes only in a set_strategy call (or with a newly built
\* StatefulDrone), and perform_action with a strategy selected leaves the
\* state one execute of that strategy gives.
C15_SelectionPersists ==
    /\ [](/\ op \in {"init", "StatefulDrone"} => strategy = NoStrategy
          /\ (op = "perform_action" /\ strategy = NoStrategy) =>
                 (heap = pre /\ result = NoResult)
          /\ (op = "perform_action" /\ strategy # NoStrategy) =>
                 (heap = execute(strategy, pre, stateful_model) /\ result = NoResult))
    /\ [][/\ strategy' # strategy => op' \in Selects \cup {"StatefulDrone"}
          /\ op' \in Selects =>
                 strategy' = (CASE op' = "set_strategy" -> arg'[1]
                                [] op' = "takeoff" -> "Takeoff"
                                [] op' = "patrol" -> "Patrol"
                                [] op' = "land" -> "Land")]_vars

\* perform_action has run Takeoff, selected two calls earlier, on a drone at
\* altitude 7
C15_Witness ==
    /\ op = "perform_action"
    /\ strategy = "Takeoff"
    /\ seen_before.altitude = 7
    /\ seen.altitude = 10
    /\ seen.speed = 6

\* C16: nothing a client can trigger changes battery_level: it is 100 in
\* every state reachable from startup, and the route /battery never answers
\* with the low-battery alert.
C16_BatteryStaysFull ==
    /\ now.battery_level = 100
    /\ op = "check_battery" => result = [battery_level |-> 100]

\* /battery has answered 100 for a drone that took off, moved and dodged
C16_Witness ==
    /\ op = "check_battery"
    /\ result = [battery_level |-> 100]
    /\ now.altitude = 10
    /\ now.speed = 6
    /\ now.position = <<7, 4>>

C13_NoInterleaving ==
    \A t \in Threads :
        /\ pc[t] = "rtb_return" =>
              /\ now.position = <<0, 0>>
              /\ now.altitude = 0
              /\ now.speed = 0
        /\ ~raced[t]

=============================================================================
